---------------------------- MODULE Spec2Model ----------------------------
(***************************************************************************)
(* A model of decouple.py: option resolution (Config, WritableConfig),    *)
(* the repositories (Empty, Ini, WritableIni, Env), upward discovery       *)
(* (AutoConfig, CustomConfig) and the boolean cast.                        *)
(*                                                                         *)
(* Python strings are sequences of one-character strings, so that strip,   *)
(* lower and split are computed character by character.  Python values     *)
(* are tagged records.  An operation's outcome is a record holding the     *)
(* exception raised ("none" when it returned) and the value returned.      *)
(***************************************************************************)
EXTENDS Integers, Sequences, FiniteSets, TLC

VARIABLES
    environ,              \* os.environ: a function from names to strings
    RepositoryIni_SECTION,\* the class attribute RepositoryIni.SECTION
    repository,           \* the repository a Config wraps
    wrepo,                \* a WritableRepositoryIni: its SECTION and parser
    wfile,                \* the text of that repository's backing file
    fs,                   \* the regular files of the filesystem (paths)
    auto,                 \* an AutoConfig: search_path and config
    envfile,              \* the lines of an env-style file
    envrepo,              \* the RepositoryEnv built from envfile
    instances,            \* the AutoConfig/CustomConfig objects created so far
    last                  \* the last operation: its arguments and outcome

vars == <<environ, RepositoryIni_SECTION, repository, wrepo, wfile, fs, auto,
          envfile, envrepo, instances, last>>

(***************************************************************************)
(* Strings                                                                 *)
(***************************************************************************)
UpperLetters ==
    <<"A","B","C","D","E","F","G","H","I","J","K","L","M",
      "N","O","P","Q","R","S","T","U","V","W","X","Y","Z">>

LowerLetters ==
    <<"a","b","c","d","e","f","g","h","i","j","k","l","m",
      "n","o","p","q","r","s","t","u","v","w","x","y","z">>

LowerChar(c) ==
    IF \E i \in 1..26 : UpperLetters[i] = c
    THEN LowerLetters[CHOOSE i \in 1..26 : UpperLetters[i] = c]
    ELSE c

UpperChar(c) ==
    IF \E i \in 1..26 : LowerLetters[i] = c
    THEN UpperLetters[CHOOSE i \in 1..26 : LowerLetters[i] = c]
    ELSE c

\* str.lower()
Lower(s) == [i \in 1..Len(s) |-> LowerChar(s[i])]

Whitespace == {" ", "\t", "\n", "\r"}

RECURSIVE LStrip(_, _)
\* str.lstrip(chars)
LStrip(s, chars) ==
    IF s # <<>> /\ Head(s) \in chars THEN LStrip(Tail(s), chars) ELSE s

RECURSIVE RStrip(_, _)
\* str.rstrip(chars)
RStrip(s, chars) ==
    IF s # <<>> /\ s[Len(s)] \in chars
    THEN RStrip(SubSeq(s, 1, Len(s) - 1), chars)
    ELSE s

\* str.strip(chars); str.strip() is StripChars(s, Whitespace)
StripChars(s, chars) == RStrip(LStrip(s, chars), chars)

Strip(s) == StripChars(s, Whitespace)

\* All strings over alphabet of length at most n
StringsUpTo(alphabet, n) == UNION {[1..m -> alphabet] : m \in 0..n}

(***************************************************************************)
(* Python values and outcomes                                              *)
(***************************************************************************)
PyStr(s)  == [t |-> "str", s |-> s, n |-> 0]
PyInt(n)  == [t |-> "int", s |-> <<>>, n |-> n]
PyBool(b) == [t |-> "bool", s |-> <<>>, n |-> IF b THEN 1 ELSE 0]
PyNone    == [t |-> "NoneType", s |-> <<>>, n |-> 0]

\* The instance `undefined` of class Undefined
undefined == [t |-> "Undefined", s |-> <<>>, n |-> 0]

Digits == <<"0","1","2","3","4","5","6","7","8","9">>

RECURSIVE Decimal(_)
Decimal(n) ==
    IF n < 10 THEN <<Digits[n + 1]>>
    ELSE Decimal(n \div 10) \o <<Digits[(n % 10) + 1]>>

\* str(value)
Str(v) ==
    CASE v.t = "str" -> v.s
      [] v.t = "int" -> IF v.n < 0 THEN <<"-">> \o Decimal(-v.n) ELSE Decimal(v.n)
      [] v.t = "bool" -> IF v.n = 1 THEN <<"T","r","u","e">>
                                    ELSE <<"F","a","l","s","e">>
      [] v.t = "NoneType" -> <<"N","o","n","e">>
      [] OTHER -> <<"<","U",">">>

Return(v) == [exc |-> "none", value |-> v]
Raise(e)  == [exc |-> e, value |-> PyNone]

(***************************************************************************)
(* The boolean cast                                                        *)
(***************************************************************************)
TrueTokens ==
    {<<"y">>, <<"y","e","s">>, <<"t">>, <<"t","r","u","e">>, <<"o","n">>, <<"1">>}

FalseTokens ==
    {<<"n">>, <<"n","o">>, <<"f">>, <<"f","a","l","s","e">>, <<"o","f","f">>, <<"0">>}

\* distutils.util.strtobool
strtobool(val) ==
    LET v == Lower(val) IN
    IF v \in TrueTokens THEN Return(PyInt(1))
    ELSE IF v \in FalseTokens THEN Return(PyInt(0))
    ELSE Raise("ValueError")

\* _cast_boolean without the test for the empty string
Config_cast_boolean_noempty(value) ==
    LET r == strtobool(Str(value)) IN
    IF r.exc # "none" THEN r ELSE Return(PyBool(r.value.n # 0))

\* Config._cast_boolean
Config_cast_boolean(value) ==
    LET s == Str(value) IN
    IF s = <<>> THEN Return(PyBool(FALSE))
    ELSE LET r == strtobool(s) IN
         IF r.exc # "none" THEN r ELSE Return(PyBool(r.value.n # 0))

\* Config._cast_do_nothing
Config_cast_do_nothing(value) == Return(value)

\* The cast step of get: cast is `undefined`, the type bool, or a callable
\* (here the builtin str).
ApplyCast(cast, value) ==
    CASE cast = "undefined" -> Config_cast_do_nothing(value)
      [] cast = "bool" -> Config_cast_boolean(value)
      [] OTHER -> Return(PyStr(Str(value)))

(***************************************************************************)
(* configparser.ConfigParser, as far as the repositories use it.  A parser *)
(* holds the DEFAULT section's options and the named sections' options,    *)
(* option names as optionxform leaves them, values raw.                    *)
(***************************************************************************)
DEFAULTSECT == "DEFAULT"

EmptyMap == [k \in {} |-> <<>>]

\* ConfigParser()
NewParser == [defaults |-> EmptyMap, sections |-> [x \in {} |-> EmptyMap]]

\* RawConfigParser.optionxform
optionxform(option) == Lower(option)

MapPut(m, k, v) == [x \in DOMAIN m \cup {k} |-> IF x = k THEN v ELSE m[x]]

MapDel(m, k) == [x \in DOMAIN m \ {k} |-> m[x]]

\* RawConfigParser.sections (DEFAULT is not listed)
parser_sections(p) == DOMAIN p.sections

\* RawConfigParser.has_option
parser_has_option(p, section, option) ==
    IF section = "" \/ section = DEFAULTSECT
    THEN optionxform(option) \in DOMAIN p.defaults
    ELSE IF section \notin DOMAIN p.sections THEN FALSE
    ELSE \/ optionxform(option) \in DOMAIN p.sections[section]
         \/ optionxform(option) \in DOMAIN p.defaults

RECURSIVE Interpolate(_)
\* BasicInterpolation.before_get on a raw value without "%(name)s"
\* references: "%%" reads as "%", any other "%" is a syntax error.  The
\* result is <<ok, text>>.
Interpolate(raw) ==
    IF raw = <<>> THEN <<TRUE, <<>>>>
    ELSE IF Head(raw) # "%"
    THEN LET r == Interpolate(Tail(raw)) IN <<r[1], <<Head(raw)>> \o r[2]>>
    ELSE IF Len(raw) >= 2 /\ raw[2] = "%"
    THEN LET r == Interpolate(SubSeq(raw, 3, Len(raw))) IN <<r[1], <<"%">> \o r[2]>>
    ELSE <<FALSE, <<>>>>

\* RawConfigParser.get(section, option) with raw=False and no fallback
parser_get(p, section, option) ==
    IF section # DEFAULTSECT /\ section \notin DOMAIN p.sections
    THEN Raise("NoSectionError")
    ELSE LET opt == optionxform(option)
             own == IF section = DEFAULTSECT THEN EmptyMap ELSE p.sections[section]
         IN  IF opt \notin DOMAIN own \cup DOMAIN p.defaults
             THEN Raise("NoOptionError")
             ELSE LET raw == IF opt \in DOMAIN own THEN own[opt] ELSE p.defaults[opt]
                      r == Interpolate(raw)
                  IN  IF r[1] THEN Return(PyStr(r[2]))
                      ELSE Raise("InterpolationSyntaxError")

RECURSIVE DropEscapes(_)
\* value.replace('%%', '')
DropEscapes(s) ==
    IF Len(s) < 2 THEN s
    ELSE IF s[1] = "%" /\ s[2] = "%" THEN DropEscapes(SubSeq(s, 3, Len(s)))
    ELSE <<Head(s)>> \o DropEscapes(Tail(s))

\* BasicInterpolation.before_set accepts the value
before_set_ok(value) == \A i \in 1..Len(DropEscapes(value)) : DropEscapes(value)[i] # "%"

\* ConfigParser.set: the new parser and the exception raised
parser_set(p, section, option, value) ==
    IF value # <<>> /\ ~before_set_ok(value)
    THEN [parser |-> p, exc |-> "ValueError"]
    ELSE IF section = "" \/ section = DEFAULTSECT
    THEN [parser |-> [p EXCEPT !.defaults = MapPut(@, optionxform(option), value)],
          exc |-> "none"]
    ELSE IF section \notin DOMAIN p.sections
    THEN [parser |-> p, exc |-> "NoSectionError"]
    ELSE [parser |-> [p EXCEPT !.sections[section] =
                                   MapPut(@, optionxform(option), value)],
          exc |-> "none"]

\* RawConfigParser.remove_option
parser_remove_option(p, section, option) ==
    IF section = "" \/ section = DEFAULTSECT
    THEN [parser |-> [p EXCEPT !.defaults = MapDel(@, optionxform(option))],
          exc |-> "none"]
    ELSE IF section \notin DOMAIN p.sections
    THEN [parser |-> p, exc |-> "NoSectionError"]
    ELSE [parser |-> [p EXCEPT !.sections[section] =
                                   MapDel(@, optionxform(option))],
          exc |-> "none"]

\* RawConfigParser.remove_section
parser_remove_section(p, section) ==
    [p EXCEPT !.sections = [x \in DOMAIN p.sections \ {section} |-> p.sections[x]]]

\* RawConfigParser.add_section, for a section that is not there
parser_add_section(p, section) ==
    [p EXCEPT !.sections = [x \in DOMAIN p.sections \cup {section} |->
                               IF x = section THEN EmptyMap ELSE p.sections[x]]]

(***************************************************************************)
(* The text of an ini file has the parser's shape: for DEFAULT and for     *)
(* each section header, the option lines "name = text" with name and text  *)
(* as they stand in the file.                                              *)
(***************************************************************************)
\* The option lines of one section as read: names stripped and passed
\* through optionxform, values stripped.
ReadOptions(m) ==
    [k \in {optionxform(Strip(x)) : x \in DOMAIN m} |->
        Strip(m[CHOOSE x \in DOMAIN m : optionxform(Strip(x)) = k])]

\* RawConfigParser.read_file into a new parser
parser_read_file(text) ==
    [defaults |-> ReadOptions(text.defaults),
     sections |-> [x \in DOMAIN text.sections |-> ReadOptions(text.sections[x])]]

\* RawConfigParser.write: every option is written as "name = value"
parser_write(p) == [defaults |-> p.defaults, sections |-> p.sections]

(***************************************************************************)
(* Repositories.  A repository is a record: its kind, its parser (Ini),    *)
(* its data (Env) and its own SECTION attribute (WritableIni only; the     *)
(* other Ini repositories read the class attribute).                       *)
(***************************************************************************)
\* RepositoryEmpty.__init__
RepositoryEmpty_init ==
    [kind |-> "Empty", parser |-> NewParser, data |-> EmptyMap, SECTION |-> ""]

\* RepositoryIni.__init__ on a file with the given text
RepositoryIni_init(text) ==
    [kind |-> "Ini", parser |-> parser_read_file(text), data |-> EmptyMap,
     SECTION |-> ""]

\* self.SECTION: the instance attribute if the instance has one, else the
\* class attribute
SectionOf(clsSECTION, repo) ==
    IF repo.kind = "WritableIni" THEN repo.SECTION ELSE clsSECTION

\* The index of the first "=" of a line, 0 if there is none
FirstEq(line) ==
    IF \E i \in 1..Len(line) : line[i] = "="
    THEN CHOOSE i \in 1..Len(line) :
             line[i] = "=" /\ \A j \in 1..(i - 1) : line[j] # "="
    ELSE 0

Quotes == {"'", "\""}

\* The value stored for the text v after the "=": stripped of every
\* leading and trailing quote character when wrapped in a matching pair
EnvValue(v) ==
    IF Len(v) >= 2 /\ ( \/ (v[1] = "'" /\ v[Len(v)] = "'")
                        \/ (v[1] = "\"" /\ v[Len(v)] = "\"") )
    THEN StripChars(v, Quotes)
    ELSE v

RECURSIVE EnvData(_, _)
\* The loop of RepositoryEnv.__init__ over the lines left, from data
EnvData(lines, data) ==
    IF lines = <<>> THEN data
    ELSE LET line == Strip(Head(lines))
             i == FirstEq(line)
         IN  IF line = <<>> \/ Head(line) = "#" \/ i = 0
             THEN EnvData(Tail(lines), data)
             ELSE LET k == Strip(SubSeq(line, 1, i - 1))
                      v == Strip(SubSeq(line, i + 1, Len(line)))
                  IN  EnvData(Tail(lines), MapPut(data, k, EnvValue(v)))

\* RepositoryEnv.__init__ on a file with the given lines
RepositoryEnv_init(lines) ==
    [kind |-> "Env", parser |-> NewParser, data |-> EnvData(lines, EmptyMap),
     SECTION |-> ""]

\* RepositoryIni.__contains__
RepositoryIni_contains(env, clsSECTION, repo, key) ==
    \/ key \in DOMAIN env
    \/ parser_has_option(repo.parser, SectionOf(clsSECTION, repo), key)

\* The membership test WritableRepositoryIni would inherit without its own
WritableRepositoryIni_contains_inherited(env, clsSECTION, repo, key) ==
    RepositoryIni_contains(env, clsSECTION, repo, key)

\* WritableRepositoryIni.__contains__
WritableRepositoryIni_contains(env, clsSECTION, repo, key) ==
    parser_has_option(repo.parser, SectionOf(clsSECTION, repo), key)

\* RepositoryEnv.__contains__
RepositoryEnv_contains(env, repo, key) ==
    key \in DOMAIN env \/ key \in DOMAIN repo.data

\* key in repository
Repository_contains(env, clsSECTION, repo, key) ==
    CASE repo.kind = "Empty" -> FALSE
      [] repo.kind = "Ini" -> RepositoryIni_contains(env, clsSECTION, repo, key)
      [] repo.kind = "WritableIni" ->
             WritableRepositoryIni_contains(env, clsSECTION, repo, key)
      [] OTHER -> RepositoryEnv_contains(env, repo, key)

\* repository[key]
Repository_getitem(clsSECTION, repo, key) ==
    CASE repo.kind = "Empty" -> Return(PyNone)
      [] repo.kind \in {"Ini", "WritableIni"} ->
             parser_get(repo.parser, SectionOf(clsSECTION, repo), key)
      [] OTHER -> IF key \in DOMAIN repo.data THEN Return(PyStr(repo.data[key]))
                  ELSE Raise("KeyError")

(***************************************************************************)
(* Config                                                                  *)
(***************************************************************************)
\* The end of get: the cast of the value found, or the exception of the
\* lookup
CastOutcome(cast, found) ==
    IF found.exc # "none" THEN found ELSE ApplyCast(cast, found.value)

\* Config.get where the repository is asked before the environment
Config_get_repofirst(env, clsSECTION, repo, option, default, cast) ==
    IF Repository_contains(env, clsSECTION, repo, option)
       /\ Repository_getitem(clsSECTION, repo, option).exc = "none"
    THEN CastOutcome(cast, Repository_getitem(clsSECTION, repo, option))
    ELSE IF option \in DOMAIN env
    THEN CastOutcome(cast, Return(PyStr(env[option])))
    ELSE IF default.t = "Undefined" THEN Raise("UndefinedValueError")
    ELSE CastOutcome(cast, Return(default))

\* Config.get where the default is returned as it is
Config_get_rawdefault(env, clsSECTION, repo, option, default, cast) ==
    IF option \in DOMAIN env
    THEN CastOutcome(cast, Return(PyStr(env[option])))
    ELSE IF Repository_contains(env, clsSECTION, repo, option)
    THEN CastOutcome(cast, Repository_getitem(clsSECTION, repo, option))
    ELSE IF default.t = "Undefined" THEN Raise("UndefinedValueError")
    ELSE Return(default)

\* Config.get
Config_get(env, clsSECTION, repo, option, default, cast) ==
    IF option \in DOMAIN env
    THEN CastOutcome(cast, Return(PyStr(env[option])))
    ELSE IF Repository_contains(env, clsSECTION, repo, option)
    THEN CastOutcome(cast, Repository_getitem(clsSECTION, repo, option))
    ELSE IF default.t = "Undefined" THEN Raise("UndefinedValueError")
    ELSE CastOutcome(cast, Return(default))

(***************************************************************************)
(* Config.get over every environment, repository and call.                 *)
(***************************************************************************)
\* The value of the variables a specification does not use
Unused == "unused"

MaxStrLen == 2

Options == {<<"k">>, <<"K">>, <<"j">>}

EnvValues == {<<"e">>, <<>>}

\* The environments: every function from some of the names to the values
Environments == UNION {[D -> EnvValues] : D \in SUBSET Options}

\* The texts of the Ini files a repository is built from
IniTexts ==
    { [defaults |-> EmptyMap,
       sections |-> [x \in {"settings"} |-> [o \in {<<"k">>} |-> <<"r">>]]],
      [defaults |-> [o \in {<<"j">>} |-> <<"d">>],
       sections |-> [x \in {"settings"} |-> [o \in {<<"K">>} |-> <<" ","r"," ">>]]],
      [defaults |-> EmptyMap,
       sections |-> [x \in {"other"} |-> [o \in {<<"k">>} |-> <<"x">>]]],
      [defaults |-> EmptyMap,
       sections |-> [x \in {"settings"} |-> [o \in {<<"k">>} |-> <<"%">>]]] }

\* The lines of the env files a repository is built from
EnvTexts ==
    { <<>>,
      << <<"k","=","r">> >>,
      << <<"#","c">>, <<"K"," ","="," ","'","r","'">>, <<"j","=">> >> }

Repositories ==
    {RepositoryEmpty_init}
    \cup {RepositoryIni_init(t) : t \in IniTexts}
    \cup {RepositoryEnv_init(t) : t \in EnvTexts}

\* Every spelling of a token in upper and lower case
CaseVariants(tok) ==
    {[i \in 1..Len(tok) |-> IF i \in U THEN UpperChar(tok[i]) ELSE tok[i]] :
        U \in SUBSET (1..Len(tok))}

BoolAlphabet == {"y", "N", "o", "1", " "}

\* The strings the boolean cast is tried on
BoolStrings ==
    UNION {CaseVariants(t) : t \in TrueTokens \cup FalseTokens}
    \cup StringsUpTo(BoolAlphabet, MaxStrLen)
    \cup {<<"2">>, <<"y","e","s"," ">>, <<"t","r","u">>, <<"N","o","n","e">>,
          <<"o","n","e">>, <<"1","0">>}

Defaults ==
    {undefined, PyNone, PyInt(0), PyInt(1), PyInt(5), PyBool(TRUE), PyBool(FALSE)}
    \cup {PyStr(s) : s \in BoolStrings}

Casts == {"undefined", "bool", "str"}

NoCall == [op |-> "none", option |-> <<>>, default |-> undefined,
           cast |-> "undefined", out |-> Return(PyNone)]

InitConfig ==
    /\ environ \in Environments
    /\ RepositoryIni_SECTION = "settings"
    /\ repository \in Repositories
    /\ last = NoCall
    /\ wrepo = Unused /\ wfile = Unused /\ fs = Unused /\ auto = Unused
    /\ envfile = Unused /\ envrepo = Unused /\ instances = Unused

\* config.get(option, default, cast) and config(option, default, cast).
\* get writes neither the environment nor the repository, so a later call
\* computes what a first call in the same environment computes: one call is
\* taken from each initial state.
ConfigGet ==
    \E option \in Options, default \in Defaults, cast \in Casts :
        /\ last.op = "none"
        /\ last' = [op |-> "get", option |-> option, default |-> default,
                    cast |-> cast,
                    out |-> Config_get(environ, RepositoryIni_SECTION,
                                       repository, option, default, cast)]
        /\ UNCHANGED <<environ, RepositoryIni_SECTION, repository, wrepo, wfile,
                       fs, auto, envfile, envrepo, instances>>

NextConfig == ConfigGet

SpecConfig == InitConfig /\ [][NextConfig]_vars

\* C1: when the option is in the process environment, get with no cast
\* returns the environment's string, whatever the repository and the default.
C1_EnvironmentWins ==
    (last.op = "get" /\ last.cast = "undefined" /\ last.option \in DOMAIN environ)
        => last.out = Return(PyStr(environ[last.option]))

\* C1 witness: an Ini repository defines the option with another value, a
\* default is given, and the call returned.
C1_Witness ==
    /\ last.op = "get" /\ last.cast = "undefined"
    /\ last.option \in DOMAIN environ
    /\ last.default # undefined
    /\ repository.kind = "Ini"
    /\ parser_has_option(repository.parser, RepositoryIni_SECTION, last.option)
    /\ parser_get(repository.parser, RepositoryIni_SECTION, last.option)
           # Return(PyStr(environ[last.option]))
    /\ last.out.exc = "none"

\* The option of the last call is in neither the environment nor the repository
LastAbsent ==
    /\ last.op = "get"
    /\ last.option \notin DOMAIN environ
    /\ ~Repository_contains(environ, RepositoryIni_SECTION, repository, last.option)

\* C2: for an option absent from environment and repository, get without a
\* default raises UndefinedValueError, and get with a default d and cast c
\* ends as c(d) does: d itself with no cast, the boolean cast of d for bool.
C2_AbsentOption ==
    LastAbsent =>
        IF last.default = undefined
        THEN last.out = Raise("UndefinedValueError")
        ELSE CASE last.cast = "undefined" -> last.out = Return(last.default)
               [] last.cast = "bool" -> last.out = Config_cast_boolean(last.default)
               [] OTHER -> last.out = Return(PyStr(Str(last.default)))

\* C2 witness: the falsy default 0 went through the boolean cast.
C2_Witness ==
    /\ LastAbsent
    /\ last.default = PyInt(0) /\ last.cast = "bool"
    /\ last.out = Return(PyBool(FALSE))

IsCaseVariant(s, tokens) ==
    \E tok \in tokens :
        /\ Len(s) = Len(tok)
        /\ \A i \in 1..Len(tok) : s[i] = tok[i] \/ s[i] = UpperChar(tok[i])

\* What the last call resolves to before the cast
LastResolved ==
    Config_get(environ, RepositoryIni_SECTION, repository, last.option,
               last.default, "undefined")

\* C6: get with cast=bool takes the string form of the resolved value and
\* returns false for "", true for a case variant of y/yes/t/true/on/1, false
\* for a case variant of n/no/f/false/off/0, and raises ValueError otherwise.
C6_BooleanCast ==
    (last.op = "get" /\ last.cast = "bool" /\ LastResolved.exc = "none") =>
        LET s == Str(LastResolved.value) IN
        CASE s = <<>> -> last.out = Return(PyBool(FALSE))
          [] s # <<>> /\ IsCaseVariant(s, TrueTokens) -> last.out = Return(PyBool(TRUE))
          [] s # <<>> /\ IsCaseVariant(s, FalseTokens) -> last.out = Return(PyBool(FALSE))
          [] OTHER -> last.out = Raise("ValueError")

\* C6 witness: a mixed-case token resolved from the default was cast to true.
C6_Witness ==
    /\ last.op = "get" /\ last.cast = "bool"
    /\ last.default = PyStr(<<"Y","e","S">>)
    /\ LastResolved = Return(last.default)
    /\ last.out = Return(PyBool(TRUE))

(***************************************************************************)
(* WritableRepositoryIni and WritableConfig                                *)
(***************************************************************************)
\* A path at which no file exists
NoFile == [exists |-> FALSE, text |-> [defaults |-> <<>>, sections |-> <<>>]]

\* A path at which a file with the given text exists
File(text) == [exists |-> TRUE, text |-> text]

EmptyText == [defaults |-> EmptyMap, sections |-> [x \in {} |-> EmptyMap]]

\* WritableRepositoryIni._save: the text the file holds afterwards
WritableRepositoryIni_save(repo) == parser_write(repo.parser)

\* WritableRepositoryIni.__init__: the repository and the file it leaves
WritableRepositoryIni_init(file0, section, create_section) ==
    LET touched == IF ~file0.exists THEN EmptyText ELSE file0.text
        read == [kind |-> "WritableIni", parser |-> parser_read_file(touched),
                 data |-> EmptyMap, SECTION |-> section]
    IN  IF create_section /\ section \notin parser_sections(read.parser)
        THEN LET made == [read EXCEPT !.parser = parser_add_section(@, section)]
             IN  [repo |-> made, file |-> WritableRepositoryIni_save(made)]
        ELSE [repo |-> read, file |-> touched]

\* WritableRepositoryIni.__setitem__: repository, file and exception
WritableRepositoryIni_setitem(repo, file, key, value) ==
    LET r == parser_set(repo.parser, repo.SECTION, key, Str(value)) IN
    IF r.exc # "none" THEN [repo |-> repo, file |-> file, exc |-> r.exc]
    ELSE LET new == [repo EXCEPT !.parser = r.parser]
         IN  [repo |-> new, file |-> WritableRepositoryIni_save(new), exc |-> "none"]

\* __delitem__ that removes the option and does not save
WritableRepositoryIni_delitem_nosave(repo, file, key) ==
    LET r == parser_remove_option(repo.parser, repo.SECTION, key) IN
    IF r.exc # "none" THEN [repo |-> repo, file |-> file, exc |-> r.exc]
    ELSE [repo |-> [repo EXCEPT !.parser = r.parser], file |-> file, exc |-> "none"]

\* WritableRepositoryIni.__delitem__
WritableRepositoryIni_delitem(repo, file, key) ==
    LET r == parser_remove_option(repo.parser, repo.SECTION, key) IN
    IF r.exc # "none" THEN [repo |-> repo, file |-> file, exc |-> r.exc]
    ELSE LET new == [repo EXCEPT !.parser = r.parser]
         IN  [repo |-> new, file |-> WritableRepositoryIni_save(new), exc |-> "none"]

\* WritableRepositoryIni.__delattr__
WritableRepositoryIni_delattr(repo, file, item) ==
    IF item = "SECTION"
    THEN LET new == [repo EXCEPT !.parser = parser_remove_section(@, repo.SECTION)]
         IN  [repo |-> new, file |-> WritableRepositoryIni_save(new), exc |-> "none"]
    ELSE [repo |-> repo, file |-> file, exc |-> "none"]

\* WritableConfig.__delattr__
WritableConfig_delattr(repo, file, item) ==
    IF item \in {"section", "SECTION"}
    THEN WritableRepositoryIni_delattr(repo, file, "SECTION")
    ELSE [repo |-> repo, file |-> file, exc |-> "none"]

\* WritableConfig.get written as Config.get is
WritableConfig_get_environ(env, clsSECTION, repo, option, default, cast) ==
    Config_get(env, clsSECTION, repo, option, default, cast)

\* WritableConfig.get
WritableConfig_get(env, clsSECTION, repo, option, default, cast) ==
    IF Repository_contains(env, clsSECTION, repo, option)
    THEN CastOutcome(cast, Repository_getitem(clsSECTION, repo, option))
    ELSE IF default.t = "Undefined" THEN Raise("UndefinedValueError")
    ELSE CastOutcome(cast, Return(default))

\* WritableConfig.__getitem__
WritableConfig_getitem(env, clsSECTION, repo, key) ==
    WritableConfig_get(env, clsSECTION, repo, key, undefined, "undefined")

\* WritableConfig.__contains__
WritableConfig_contains(env, clsSECTION, repo, key) ==
    Repository_contains(env, clsSECTION, repo, key)

\* The files a WritableConfig is constructed on
WInitialFiles ==
    { NoFile,
      File([defaults |-> EmptyMap,
            sections |-> [x \in {"default"} |->
                             [o \in {<<"K">>} |-> <<" ","s"," ">>]]]),
      File([defaults |-> [o \in {<<"k">>} |-> <<"d">>],
            sections |-> [x \in {"default"} |-> [o \in {<<"k">>} |-> <<"s">>]]]),
      File([defaults |-> EmptyMap,
            sections |-> [x \in {"other"} |-> [o \in {<<"j">>} |-> <<"x">>]]]) }

\* The values written
WValues ==
    {PyStr(<<"a">>), PyStr(<<" ","a">>), PyStr(<<"%","%">>), PyStr(<<"%">>),
     PyStr(<<>>), PyInt(5)}

WDefaults == {undefined, PyNone, PyStr(<<"d">>), PyInt(0)}

WEnvironments == UNION {[D -> {<<"e">>}] : D \in SUBSET {<<"k">>, <<"j">>}}

WNoCall == [op |-> "none", option |-> <<>>, value |-> undefined,
            cast |-> "undefined", out |-> Return(PyNone)]

InitWritable ==
    /\ environ \in WEnvironments
    /\ RepositoryIni_SECTION = "settings"
    /\ \E file0 \in WInitialFiles, create_section \in BOOLEAN :
          LET c == WritableRepositoryIni_init(file0, "default", create_section)
          IN  wrepo = c.repo /\ wfile = c.file
    /\ last = WNoCall
    /\ repository = Unused /\ fs = Unused /\ auto = Unused
    /\ envfile = Unused /\ envrepo = Unused /\ instances = Unused

WFrame ==
    UNCHANGED <<environ, RepositoryIni_SECTION, repository, fs, auto, envfile,
                envrepo, instances>>

\* config[key] = value
WSetItem ==
    \E key \in Options, value \in WValues :
        LET r == WritableRepositoryIni_setitem(wrepo, wfile, key, value) IN
        /\ wrepo' = r.repo /\ wfile' = r.file
        /\ last' = [op |-> "set", option |-> key, value |-> value,
                    cast |-> "undefined", out |-> [Return(PyNone) EXCEPT !.exc = r.exc]]
        /\ WFrame

\* del config[key]
WDelItem ==
    \E key \in Options :
        LET r == WritableRepositoryIni_delitem(wrepo, wfile, key) IN
        /\ wrepo' = r.repo /\ wfile' = r.file
        /\ last' = [op |-> "del", option |-> key, value |-> undefined,
                    cast |-> "undefined", out |-> [Return(PyNone) EXCEPT !.exc = r.exc]]
        /\ WFrame

\* del config.section, del config.SECTION
WDelSection ==
    \E item \in {"section", "SECTION"} :
        LET r == WritableConfig_delattr(wrepo, wfile, item) IN
        /\ wrepo' = r.repo /\ wfile' = r.file
        /\ last' = [op |-> "delsection", option |-> <<>>, value |-> undefined,
                    cast |-> "undefined", out |-> [Return(PyNone) EXCEPT !.exc = r.exc]]
        /\ WFrame

\* config.get(option, default, cast); config[option] is the call with
\* neither default nor cast
WGet ==
    \E option \in Options, default \in WDefaults, cast \in Casts :
        /\ last' = [op |-> "get", option |-> option, value |-> default,
                    cast |-> cast,
                    out |-> WritableConfig_get(environ, RepositoryIni_SECTION,
                                               wrepo, option, default, cast)]
        /\ UNCHANGED <<wrepo, wfile>>
        /\ WFrame

\* key in config
WContains ==
    \E key \in Options :
        /\ last' = [op |-> "contains", option |-> key, value |-> undefined,
                    cast |-> "undefined",
                    out |-> Return(PyBool(WritableConfig_contains(
                                environ, RepositoryIni_SECTION, wrepo, key)))]
        /\ UNCHANGED <<wrepo, wfile>>
        /\ WFrame

NextWritable == WSetItem \/ WDelItem \/ WDelSection \/ WGet \/ WContains

SpecWritable == InitWritable /\ [][NextWritable]_vars

\* config[k] now, without default or cast
GetItemNow(k) == WritableConfig_getitem(environ, RepositoryIni_SECTION, wrepo, k)

Missing == Raise("UndefinedValueError")

\* The last operation wrote option k
WroteOption(k) ==
    /\ last.op = "set" /\ last.out.exc = "none"
    /\ optionxform(last.option) = optionxform(k)

C4_EnvironmentIgnored ==
    /\ last.op = "get" =>
          /\ \A e \in WEnvironments :
                WritableConfig_get(e, RepositoryIni_SECTION, wrepo, last.option,
                                   last.value, last.cast) = last.out
          /\ ( /\ last.option \in DOMAIN environ
               /\ ~parser_has_option(wrepo.parser, wrepo.SECTION, last.option)
               /\ last.value = undefined ) => last.out = Missing
    /\ last.op = "contains" =>
          /\ \A e \in WEnvironments :
                Return(PyBool(WritableConfig_contains(e, RepositoryIni_SECTION,
                                                      wrepo, last.option))) = last.out
          /\ ( /\ last.option \in DOMAIN environ
               /\ ~parser_has_option(wrepo.parser, wrepo.SECTION, last.option) )
                 => last.out = Return(PyBool(FALSE))

\* C4 witness: get without a default of an option set only in the environment.
C4_Witness ==
    /\ last.op = "get" /\ last.value = undefined
    /\ last.option \in DOMAIN environ
    /\ ~parser_has_option(wrepo.parser, wrepo.SECTION, last.option)
    /\ last.out = Missing

\* The parser with every value stripped of leading and trailing whitespace
Stripped(p) ==
    [defaults |-> [k \in DOMAIN p.defaults |-> Strip(p.defaults[k])],
     sections |-> [x \in DOMAIN p.sections |->
                      [k \in DOMAIN p.sections[x] |-> Strip(p.sections[x][k])]]]

\* An operation that raised left the parser and the file as they were
FailedUnchanged == last'.out.exc # "none" => (wrepo' = wrepo /\ wfile' = wfile)

MaxDepth == 2

\* os.path.abspath(os.sep)
Root == <<"/">>

\* os.path.dirname of an absolute path
dirname(path) == IF Len(path) <= 1 THEN path ELSE SubSeq(path, 1, Len(path) - 1)

\* os.path.basename
basename(path) == IF Len(path) <= 1 THEN "" ELSE path[Len(path)]

\* os.path.join(path, name)
join(path, name) == Append(path, name)

\* AutoConfig.SUPPORTED, in its order
SUPPORTED ==
    << [name |-> "settings.ini", cls |-> "Ini"], [name |-> ".env", cls |-> "Env"] >>

\* The directory at depth d below the root: "/", "/a", "/a/b", ...
Dir(d) == Root \o [i \in 1..d |-> LowerLetters[i]]

Dirs == {Dir(d) : d \in 0..MaxDepth}

\* The files discovery looks for, in every directory
CandidateFiles == {join(dir, "settings.ini") : dir \in Dirs} \cup {join(dir, ".env") : dir \in Dirs}

\* The first supported name that is a file of directory path, 0 if none is
FirstSupported(supported, files, path) ==
    LET hits == {i \in 1..Len(supported) : join(path, supported[i].name) \in files}
    IN  IF hits = {} THEN 0 ELSE CHOOSE i \in hits : \A j \in hits : i <= j

RECURSIVE AutoConfig_find_file(_, _, _)
\* AutoConfig._find_file
AutoConfig_find_file(supported, files, path) ==
    LET i == FirstSupported(supported, files, path)
        parent == dirname(path)
    IN  IF i # 0 THEN join(path, supported[i].name)
        ELSE IF parent # <<>> /\ parent # Root
        THEN AutoConfig_find_file(supported, files, parent)
        ELSE <<>>

NoFind == [op |-> "none", path |-> <<>>, out |-> <<>>]

InitFind ==
    /\ fs \in SUBSET CandidateFiles
    /\ last = NoFind
    /\ RepositoryIni_SECTION = "settings"
    /\ environ = Unused /\ repository = Unused /\ wrepo = Unused /\ wfile = Unused
    /\ auto = Unused /\ envfile = Unused /\ envrepo = Unused /\ instances = Unused

\* self._find_file(path) for an absolute directory path
FindFile ==
    \E path \in Dirs :
        /\ last' = [op |-> "find", path |-> path,
                    out |-> AutoConfig_find_file(SUPPORTED, fs, path)]
        /\ UNCHANGED <<environ, RepositoryIni_SECTION, repository, wrepo, wfile,
                       fs, auto, envfile, envrepo, instances>>

NextFind == FindFile

SpecFind == InitFind /\ [][NextFind]_vars

\* The directories from path up to the root
RECURSIVE UpToRoot(_)
UpToRoot(path) == IF Len(path) <= 1 THEN {path} ELSE {path} \cup UpToRoot(dirname(path))

\* The directories from path up to the root that hold a recognized file
Holders(files, path) ==
    {dir \in UpToRoot(path) : \E i \in 1..Len(SUPPORTED) : join(dir, SUPPORTED[i].name) \in files}

\* C5: when a recognized file exists in only one directory on the way from
\* the start up to the root, at any level, _find_file returns that
\* directory's file; it returns "not found" only when no directory from the
\* start up to the root holds a recognized file.
C5_FindsAncestorFile ==
    last.op = "find" =>
        /\ \A dir \in Dirs :
              Holders(fs, last.path) = {dir}
                  => (last.out # <<>> /\ dirname(last.out) = dir /\ last.out \in fs)
        /\ last.out = <<>> => Holders(fs, last.path) = {}

(***************************************************************************)
(* RepositoryEnv built from an env-style file                              *)
(***************************************************************************)
MaxValLen == 4

EnvAlphabet == {"a", "'", "\"", " ", "="}

\* Lines that store nothing: blank, comment, no "="
SkippedLines == {<<>>, <<" ">>, <<"#","K","=","c">>, <<"K">>}

\* Lines KEY=value: a key, with or without blanks around it, "=" and a text
DataLines ==
    {key \o <<"=">> \o text :
        key \in {<<"K">>, <<" ","K"," ">>}, text \in StringsUpTo(EnvAlphabet, MaxValLen)}

\* The files: one line KEY=value, alone or after a line that stores nothing
EnvFiles ==
    {<<line>> : line \in DataLines}
    \cup {<<skipped, line>> : skipped \in SkippedLines, line \in DataLines}

NotBuilt == [kind |-> "none", parser |-> NewParser, data |-> EmptyMap, SECTION |-> ""]

InitEnv ==
    /\ envfile \in EnvFiles
    /\ envrepo = NotBuilt
    /\ last = Unused
    /\ RepositoryIni_SECTION = "settings"
    /\ environ = Unused /\ repository = Unused /\ wrepo = Unused /\ wfile = Unused
    /\ fs = Unused /\ auto = Unused /\ instances = Unused

\* RepositoryEnv(source)
BuildEnv ==
    /\ envrepo.kind = "none"
    /\ envrepo' = RepositoryEnv_init(envfile)
    /\ UNCHANGED <<environ, RepositoryIni_SECTION, repository, wrepo, wfile, fs,
                   auto, envfile, instances, last>>

NextEnv == BuildEnv

SpecEnv == InitEnv /\ [][NextEnv]_vars

\* The text after the first "=" of a line, trimmed
TrimmedValue(line) == Strip(SubSeq(Strip(line), FirstEq(Strip(line)) + 1, Len(Strip(line))))

\* The text is wrapped in one pair of matching quotes
Wrapped(t) == Len(t) >= 2 /\ t[1] = t[Len(t)] /\ t[1] \in Quotes

\* C7: the value stored for a line KEY=value is the text after the first "="
\* trimmed, without its outer pair of quotes when it is wrapped in a matching
\* pair (that pair only: the quotes inside stay), and unchanged otherwise.
C7_OuterQuotesOnly ==
    envrepo.kind = "Env" =>
        LET line == envfile[Len(envfile)]
            t == TrimmedValue(line)
        IN  /\ <<"K">> \in DOMAIN envrepo.data
            /\ envrepo.data[<<"K">>] =
                  IF Wrapped(t) THEN SubSeq(t, 2, Len(t) - 1) ELSE t

(***************************************************************************)
(* AutoConfig                                                              *)
(***************************************************************************)
\* The text of the ini file at a path: option k of [settings] names the
\* file's directory
IniContent(filename) ==
    [defaults |-> EmptyMap,
     sections |-> [x \in {"settings", "other", "third"} |->
                      [o \in {<<"k">>} |->
                          CASE x = "settings" -> <<filename[Len(filename) - 1]>>
                            [] x = "other" -> <<"o">>
                            [] OTHER -> <<"t">>]]]

\* The lines of the env file at a path
EnvContent(filename) == << <<"k", "=", filename[Len(filename) - 1]>> >>

\* self.config before the first load
None == [loaded |-> FALSE, filename |-> <<>>, repository |-> RepositoryEmpty_init]

\* AutoConfig.__init__
AutoConfig_init(search_path) ==
    [SUPPORTED |-> SUPPORTED, search_path |-> search_path, config |-> None]

\* AutoConfig._load: the config built for the path
AutoConfig_load(a, files, path) ==
    LET filename == AutoConfig_find_file(a.SUPPORTED, files, path)
        known == {i \in 1..Len(a.SUPPORTED) : a.SUPPORTED[i].name = basename(filename)}
        cls == IF known = {} THEN "Empty" ELSE a.SUPPORTED[CHOOSE i \in known : TRUE].cls
    IN  [loaded |-> TRUE, filename |-> filename,
         repository |-> CASE cls = "Ini" -> RepositoryIni_init(IniContent(filename))
                          [] cls = "Env" -> RepositoryEnv_init(EnvContent(filename))
                          [] OTHER -> RepositoryEmpty_init]

\* The start of __call__ with the load done at every call
AutoConfig_call_reload(a, files, caller) ==
    [auto |-> [a EXCEPT !.config =
                   AutoConfig_load(a, files,
                       IF a.search_path # <<>> THEN a.search_path ELSE caller)],
     discovered |-> TRUE]

\* The start of AutoConfig.__call__: the instance afterwards, and whether
\* discovery ran
AutoConfig_call(a, files, caller) ==
    IF ~a.config.loaded
    THEN [auto |-> [a EXCEPT !.config =
                        AutoConfig_load(a, files,
                            IF a.search_path # <<>> THEN a.search_path ELSE caller)],
          discovered |-> TRUE]
    ELSE [auto |-> a, discovered |-> FALSE]

\* search_path: None (<<>>) or a directory
SearchPaths == {<<>>} \cup Dirs

NoAutoCall == [op |-> "none", discovered |-> FALSE, out |-> Return(PyNone)]

InitAuto ==
    /\ fs \in SUBSET CandidateFiles
    /\ \E search_path \in SearchPaths : auto = AutoConfig_init(search_path)
    /\ environ = EmptyMap
    /\ RepositoryIni_SECTION = "settings"
    /\ last = NoAutoCall
    /\ repository = Unused /\ wrepo = Unused /\ wfile = Unused
    /\ envfile = Unused /\ envrepo = Unused /\ instances = Unused

AutoFrame ==
    UNCHANGED <<environ, RepositoryIni_SECTION, repository, wrepo, wfile, envfile,
                envrepo, instances>>

\* config('k') from code in directory caller
AutoCall ==
    \E caller \in Dirs :
        LET r == AutoConfig_call(auto, fs, caller) IN
        /\ auto' = r.auto
        /\ last' = [op |-> "call", discovered |-> r.discovered,
                    out |-> Config_get(environ, RepositoryIni_SECTION,
                                       r.auto.config.repository, <<"k">>,
                                       undefined, "undefined")]
        /\ UNCHANGED fs
        /\ AutoFrame

\* A file is created
FsCreate ==
    \E f \in CandidateFiles \ fs :
        /\ fs' = fs \cup {f}
        /\ last' = [op |-> "create", discovered |-> FALSE, out |-> Return(PyNone)]
        /\ UNCHANGED auto
        /\ AutoFrame

\* A file is removed
FsRemove ==
    \E f \in fs :
        /\ fs' = fs \ {f}
        /\ last' = [op |-> "remove", discovered |-> FALSE, out |-> Return(PyNone)]
        /\ UNCHANGED auto
        /\ AutoFrame

\* config.search_path = path
SetSearchPath ==
    \E path \in SearchPaths :
        /\ auto' = [auto EXCEPT !.search_path = path]
        /\ last' = [op |-> "search_path", discovered |-> FALSE, out |-> Return(PyNone)]
        /\ UNCHANGED fs
        /\ AutoFrame

NextAuto == AutoCall \/ FsCreate \/ FsRemove \/ SetSearchPath

SpecAuto == InitAuto /\ [][NextAuto]_vars

\* C8: once an AutoConfig holds a loaded Config, every step keeps that same
\* Config and repository, and a call runs no discovery and answers from it,
\* whatever the caller's path, the filesystem and search_path are by then.
C8_LoadedOnce ==
    [][auto.config.loaded =>
          /\ auto'.config = auto.config
          /\ last'.op = "call" =>
                /\ ~last'.discovered
                /\ last'.out = Config_get(environ, RepositoryIni_SECTION,
                                          auto.config.repository, <<"k">>,
                                          undefined, "undefined")]_vars

\* C8 witness: a call answered from the loaded file although the filesystem
\* no longer holds it.
C8_Witness ==
    /\ last.op = "call" /\ ~last.discovered
    /\ auto.config.loaded
    /\ auto.config.filename # <<>>
    /\ auto.config.filename \notin fs
    /\ last.out.exc = "none"

(***************************************************************************)
(* CustomConfig and the section of the Ini repositories                    *)
(***************************************************************************)
MaxInstances == 3

\* CustomConfig.__init__: the exception raised, the instance, and the class
\* attribute RepositoryIni.SECTION afterwards.  section "" is None.
CustomConfig_init(clsSECTION, config_filename, repository_class, search_path, section) ==
    IF repository_class \notin {"Env", "Ini"}
    THEN [exc |-> "UnsupportedParser", obj |-> AutoConfig_init(search_path),
          SECTION |-> clsSECTION]
    ELSE [exc |-> "none",
          obj |-> [SUPPORTED |-> << [name |-> config_filename, cls |-> repository_class] >>,
                   search_path |-> search_path, config |-> None],
          SECTION |-> IF section # "" /\ repository_class = "Ini"
                      THEN section ELSE clsSECTION]

\* The directory the instances search from, and its two files
AppDir == Dir(1)

AppFiles == {join(AppDir, "settings.ini"), join(AppDir, ".env")}

NoInstanceCall == [op |-> "none", i |-> 0, out |-> Return(PyNone)]

InitCustom ==
    /\ instances = <<>>
    /\ RepositoryIni_SECTION = "settings"
    /\ fs = AppFiles
    /\ environ = EmptyMap
    /\ last = NoInstanceCall
    /\ repository = Unused /\ wrepo = Unused /\ wfile = Unused /\ auto = Unused
    /\ envfile = Unused /\ envrepo = Unused

CustomFrame ==
    UNCHANGED <<environ, repository, wrepo, wfile, fs, auto, envfile, envrepo>>

\* AutoConfig(search_path): an instance configured with the default section
NewAutoConfig ==
    /\ Len(instances) < MaxInstances
    /\ instances' = Append(instances,
                           [obj |-> AutoConfig_init(AppDir), section |-> "settings"])
    /\ last' = [op |-> "AutoConfig", i |-> Len(instances) + 1, out |-> Return(PyNone)]
    /\ UNCHANGED RepositoryIni_SECTION
    /\ CustomFrame

\* CustomConfig(config_filename, repository_class, search_path, section)
NewCustomConfig ==
    \E file \in {<<"settings.ini", "Ini">>, <<".env", "Env">>, <<"settings.ini", "Empty">>},
       section \in {"", "other", "third"} :
        LET r == CustomConfig_init(RepositoryIni_SECTION, file[1], file[2], AppDir, section)
        IN  /\ Len(instances) < MaxInstances
            /\ IF r.exc # "none"
               THEN /\ UNCHANGED <<instances, RepositoryIni_SECTION>>
                    /\ last' = [op |-> "CustomConfig", i |-> 0, out |-> Raise(r.exc)]
               ELSE /\ instances' = Append(instances,
                           [obj |-> r.obj,
                            section |-> IF section # "" THEN section ELSE "settings"])
                    /\ RepositoryIni_SECTION' = r.SECTION
                    /\ last' = [op |-> "CustomConfig", i |-> Len(instances) + 1,
                                out |-> Return(PyNone)]
            /\ CustomFrame

\* instances[i]('k')
InstanceGet ==
    \E i \in 1..Len(instances) :
        LET r == AutoConfig_call(instances[i].obj, fs, AppDir) IN
        /\ instances' = [instances EXCEPT ![i].obj = r.auto]
        /\ last' = [op |-> "get", i |-> i,
                    out |-> Config_get(environ, RepositoryIni_SECTION,
                                       r.auto.config.repository, <<"k">>,
                                       undefined, "undefined")]
        /\ UNCHANGED RepositoryIni_SECTION
        /\ CustomFrame

NextCustom == NewAutoConfig \/ NewCustomConfig \/ InstanceGet

SpecCustom == InitCustom /\ [][NextCustom]_vars

\* C10: every instance resolves options in the section it was configured
\* with ("settings" unless it was given one), whichever CustomConfig objects
\* were constructed before or after it.
C10_SectionIsolation ==
    last.op = "get" =>
        last.out = Config_get(environ, instances[last.i].section,
                              instances[last.i].obj.config.repository, <<"k">>,
                              undefined, "undefined")

=============================================================================
